---- MODULE Spec2Model ----
(***************************************************************************)
(* Model of the evidence-based breakpoint calling engine of                *)
(* structural_variant/validate/call.py: the EventCall constructor, the     *)
(* strategy selector call_events and its three resolvers; and of the       *)
(* LabelMapping of mavis/illustrate/util.py.                               *)
(*                                                                         *)
(* Conventions                                                             *)
(*   - a Python exception is a result record whose kind names the class;   *)
(*   - a Python dict is a sequence of entries in insertion order;          *)
(*   - iterating a Python set of strings has no defined order: the model   *)
(*     chooses any permutation;                                            *)
(*   - an exception message is a record [text, args]; the string           *)
(*     ';'.join(...) of several messages is the sequence of the messages.  *)
(***************************************************************************)
EXTENDS Integers, Sequences, FiniteSets, TLC

VARIABLES ev, event_type, pc, calls, errors, result, ran, built, bound, support, previous, compared,
          _mapping, _reverse_mapping, labelled

\* the state of a LabelMapping and the record of the last operation on it
labels == <<_mapping, _reverse_mapping, labelled>>

vars == <<ev, event_type, pc, calls, errors, result, ran, built, bound, support, previous, compared,
          _mapping, _reverse_mapping, labelled>>

----------------------------------------------------------------------------
(* Vocabularies (structural_variant/constants.py, used by call.py)         *)

LEFT == "L"
RIGHT == "R"
NS == "?"
ORIENT == {LEFT, RIGHT, NS}

DEL == "DEL"
INS == "INS"
DUP == "DUP"
INV == "INV"
TRANS == "TRANS"
ITRANS == "ITRANS"
SVTYPE == {DEL, INS, DUP, INV, TRANS, ITRANS}

CONTIG == "contig"
SPLIT == "split"
FLANK == "flank"
CALL_METHOD == {CONTIG, SPLIT, FLANK}

None == "None"

----------------------------------------------------------------------------
(* Generic helpers                                                         *)

Range(s) == {s[i] : i \in DOMAIN s}

Min(S) == CHOOSE x \in S : \A y \in S : x <= y

Max(S) == CHOOSE x \in S : \A y \in S : x >= y

\* all orders in which the elements of a finite set can be listed
Perms(S) == {s \in [1..Cardinality(S) -> S] : \A i, j \in DOMAIN s : s[i] = s[j] => i = j}

\* all sequences over S of length at most n
SeqsUpTo(S, n) == UNION {[1..k -> S] : k \in 0..n}

RECURSIVE Flatten(_)
Flatten(ss) == IF ss = <<>> THEN <<>> ELSE Head(ss) \o Flatten(Tail(ss))

\* lexicographic order on sequences of integers (Python's order on strings)
RECURSIVE LexLess(_, _)
LexLess(a, b) ==
    IF a = <<>> THEN b # <<>>
    ELSE IF b = <<>> THEN FALSE
    ELSE IF Head(a) # Head(b) THEN Head(a) < Head(b)
    ELSE LexLess(Tail(a), Tail(b))

----------------------------------------------------------------------------
(* Breakpoints and intervals                                               *)

Interval(s, e) == [start |-> s, end |-> e]

\* Interval.__len__: number of positions of an inclusive interval
IntervalLen(i) == i.end - i.start + 1

\* Interval.overlaps
Overlaps(a, b) == ~(a.end < b.start \/ b.end < a.start)

NoBreakpoint == [chr |-> None, start |-> 0, end |-> 0, orient |-> NS, strand |-> NS]

Bp(chr, start, end, orient, strand) ==
    [chr |-> chr, start |-> start, end |-> end, orient |-> orient, strand |-> strand]

\* Breakpoint.__init__ rejects an interval whose start lies after its end
BreakpointRejects(start, end) == start > end

\* BreakpointPair.classify: event types a pair's geometry allows
ClassifyConcrete(samechr, o1, o2, opposing) ==
    IF samechr
    THEN IF opposing
         THEN (IF o1 = o2 THEN {INV} ELSE {})
         ELSE (IF o1 = LEFT /\ o2 = RIGHT THEN {DEL, INS}
               ELSE IF o1 = RIGHT /\ o2 = LEFT THEN {DUP} ELSE {})
    ELSE IF opposing
         THEN (IF o1 = o2 THEN {ITRANS} ELSE {})
         ELSE (IF o1 # o2 THEN {TRANS} ELSE {})

classify(pair) ==
    UNION {ClassifyConcrete(pair.break1.chr = pair.break2.chr, o1, o2, pair.opposing_strands) :
             o1 \in (IF pair.break1.orient = NS THEN {LEFT, RIGHT} ELSE {pair.break1.orient}),
             o2 \in (IF pair.break2.orient = NS THEN {LEFT, RIGHT} ELSE {pair.break2.orient})}

\* Evidence.putative_event_types
putative_event_types(e) == classify(e)

interchromosomal(e) == e.break1.chr # e.break2.chr

----------------------------------------------------------------------------
(* Exception messages                                                      *)

MsgInsufficient == "insufficient coverage to call by flanking reads"
MsgOverlap == "flanking read coverage overlaps. cannot call by flanking reads"
MsgOversize == "Cannot resolve by flanking reads. Coverage interval of flanking reads is larger than expected"
MsgIncompatible == "input breakpoint is incompatible with flanking coverage region"
MsgGeneric == "insufficient evidence to call events"
MsgNone == ""

Msg(text, args) == [text |-> text, args |-> args]

NoMsg == Msg(MsgNone, <<>>)

\* str(err): one argument prints as the bare text, several as "('text', ...)",
\* so a message with arguments sorts before a bare one and upper case first
TextRank(t) ==
    CASE t = MsgOversize -> 1
      [] t = MsgOverlap -> 2
      [] t = MsgIncompatible -> 3
      [] t = MsgInsufficient -> 4
      [] t = MsgGeneric -> 5
      [] OTHER -> 0

MsgKey(m) == <<TextRank(m.text)>> \o m.args

\* the string order of two ';'-joined messages
JoinedLess(a, b) ==
    LexLess(Flatten([i \in DOMAIN a |-> MsgKey(a[i]) \o <<-1>>]),
            Flatten([i \in DOMAIN b |-> MsgKey(b[i]) \o <<-1>>]))

\* sorted(list(S)) for a set of joined messages
RECURSIVE SortedJoined(_)
SortedJoined(S) ==
    IF S = {} THEN <<>>
    ELSE LET m == CHOOSE x \in S : \A y \in S : y = x \/ JoinedLess(x, y)
         IN <<m>> \o SortedJoined(S \ {m})

IsSortedMsgs(s) == \A i, j \in DOMAIN s : i < j => LexLess(MsgKey(s[i]), MsgKey(s[j]))

----------------------------------------------------------------------------
(* EventCall.__init__                                                      *)

Ok == "ok"

\* contig=None and contig_alignment=None: a contig is named by its index in
\* ev.contigs, an alignment pair by <<contig index, pair index>>
NoContig == 0

NoAlignment == <<0, 0>>

NoCall ==
    [break1 |-> NoBreakpoint, break2 |-> NoBreakpoint, event_type |-> None,
     call_method |-> <<None, None>>, contig |-> NoContig, contig_alignment |-> NoAlignment,
     untemplated_sequence |-> None, opposing_strands |-> FALSE]

Raise(kind) == [kind |-> kind, call |-> NoCall]

\* the parameters EventCall.__init__ declares after self, required ones first
EventCallParameters ==
    <<"b1", "b2", "source_evidence", "event_type", "call_method",
      "break2_call_method", "contig", "contig_alignment", "untemplated_sequence">>

EventCallRequired == 5

\* Python's argument binding: npos positional arguments and the keywords kw
\* fit the signature iff every keyword is a parameter not already bound and
\* every required parameter is bound
BindsEventCall(npos, kw) ==
    /\ npos <= Len(EventCallParameters)
    /\ kw \subseteq {EventCallParameters[i] : i \in (npos + 1)..Len(EventCallParameters)}
    /\ \A i \in 1..EventCallRequired : i <= npos \/ EventCallParameters[i] \in kw

\* Vocab.enforce: the value itself when it is a member, an error otherwise
Enforces(vocab, v) == v \in vocab

\* the call_method pair the constructor derives (lines 52-61)
EventCallMethod(call_method, break2_call_method, contig) ==
    IF contig # NoContig
    THEN (IF call_method # None \/ break2_call_method # None
          THEN Raise("AttributeError")
          ELSE [kind |-> Ok, call |-> [NoCall EXCEPT !.call_method = <<CONTIG, CONTIG>>]])
    ELSE IF break2_call_method # None
    THEN (IF Enforces(CALL_METHOD, call_method) /\ Enforces(CALL_METHOD, break2_call_method)
          THEN [kind |-> Ok, call |-> [NoCall EXCEPT !.call_method = <<call_method, break2_call_method>>]]
          ELSE Raise("KeyError"))
    ELSE (IF Enforces(CALL_METHOD, call_method)
          THEN [kind |-> Ok, call |-> [NoCall EXCEPT !.call_method = <<call_method, call_method>>]]
          ELSE Raise("KeyError"))

\* the constructor without its event-type check
EventTypeAcceptedUnchecked(e, et) == TRUE

\* the event-type check of the constructor (lines 48-51)
EventTypeAccepted(e, et) == et \in classify(e)

\* lines 37-38
Untemplated(e, untemplated_sequence) ==
    IF untemplated_sequence = None THEN e.untemplated_sequence ELSE untemplated_sequence

\* lines 40-62, given the outcome cm of lines 52-61
EventCallBuild(b1, b2, e, et, cm, contig, contig_alignment, untemplated_sequence) ==
    IF ~Enforces(SVTYPE, et) THEN Raise("KeyError")
    ELSE IF ~EventTypeAccepted(e, et) THEN Raise("ValueError")
    ELSE IF cm.kind # Ok THEN cm
    ELSE [kind |-> Ok,
          call |-> [break1 |-> b1, break2 |-> b2, event_type |-> et,
                    call_method |-> cm.call.call_method, contig |-> contig,
                    contig_alignment |-> contig_alignment,
                    untemplated_sequence |-> Untemplated(e, untemplated_sequence),
                    opposing_strands |-> e.opposing_strands]]

EventCallInit(b1, b2, e, et, call_method, break2_call_method, contig, contig_alignment, untemplated_sequence) ==
    EventCallBuild(b1, b2, e, et, EventCallMethod(call_method, break2_call_method, contig),
                   contig, contig_alignment, untemplated_sequence)

----------------------------------------------------------------------------
(* _call_by_flanking_pairs                                                 *)

FlankResult(kind, msg, first, second) ==
    [kind |-> kind, msg |-> msg, first |-> first, second |-> second]

FlankRaise(kind, msg) == FlankResult(kind, msg, NoBreakpoint, NoBreakpoint)

IntervalArgs(i) == <<i.start, i.end>>

BreakpointArgs(b) == IF b = NoBreakpoint THEN <<>> ELSE <<b.start, b.end>>

\* flanking bounding without its event-type filter
RetainedPairUnfiltered(e, et, p) == TRUE

\* the pairs the event-type filter keeps (lines 209-218)
RetainedPair(e, et, p) ==
    ~(\/ (et = DEL /\ p.fragment_size.end <= e.max_expected_fragment_size)
      \/ (et = INS /\ p.fragment_size.start >= e.min_expected_fragment_size))

RetainedPairs(e, et) ==
    LET Keep(p) == RetainedPair(e, et, p) IN SelectSeq(e.flanking_pairs, Keep)

first_positions(e, et) ==
    UNION {{p.read.reference_start + 1, p.read.reference_end, p.mate.next_reference_start + 1} :
             p \in Range(RetainedPairs(e, et))}

second_positions(e, et) ==
    UNION {{p.mate.reference_start + 1, p.mate.reference_end, p.read.next_reference_start + 1} :
             p \in Range(RetainedPairs(e, et))}

\* lines 247-257: the end of a LEFT first breakpoint, clamped by the other
\* side's cover and by a second breakpoint already called
FirstEnd(e, cover1, cover2, second_breakpoint_called, max_breakpoint_width) ==
    IF interchromosomal(e) THEN cover1.end + max_breakpoint_width
    ELSE IF second_breakpoint_called = NoBreakpoint
    THEN Min({cover1.end + max_breakpoint_width, cover2.start - 1})
    ELSE Min({cover1.end + max_breakpoint_width, cover2.start - 1, second_breakpoint_called.end - 1})

FirstBreakpoint(e, cover1, second_breakpoint_called, start, end) ==
    IF e.break1.orient = LEFT /\ BreakpointRejects(start, end)
    THEN FlankRaise("AssertionError",
           Msg(MsgIncompatible, IntervalArgs(cover1) \o BreakpointArgs(second_breakpoint_called)))
    ELSE IF BreakpointRejects(start, end) THEN FlankRaise("AttributeError", NoMsg)
    ELSE FlankResult(Ok, NoMsg, Bp(e.break1.chr, start, end, e.break1.orient, e.break1.strand),
                     second_breakpoint_called)

\* lines 246-278: the first breakpoint when it is not given
FlankFirst(e, cover1, cover2, second_breakpoint_called, max_breakpoint_width) ==
    IF e.break1.orient = LEFT
    THEN FirstBreakpoint(e, cover1, second_breakpoint_called, cover1.end,
           FirstEnd(e, cover1, cover2, second_breakpoint_called, max_breakpoint_width))
    ELSE IF e.break1.orient = RIGHT
    THEN FirstBreakpoint(e, cover1, second_breakpoint_called,
           Max({cover1.start - max_breakpoint_width, 1}), Max({cover1.start, 1}))
    ELSE FlankRaise("NotSpecifiedError", NoMsg)

\* lines 294-301: the start of a RIGHT second breakpoint; by then
\* first_breakpoint_called is always set
SecondStart(e, cover1, cover2, first_breakpoint_called, max_breakpoint_width) ==
    IF interchromosomal(e) THEN Max({cover2.start - max_breakpoint_width, 1})
    ELSE IF first_breakpoint_called = NoBreakpoint
    THEN Max({cover2.start - max_breakpoint_width, 1, cover1.end + 1})
    ELSE Max({cover2.start - max_breakpoint_width, 1, cover1.end + 1, first_breakpoint_called.start + 1})

SecondBreakpoint(e, cover2, first_breakpoint_called, start, end) ==
    IF e.break2.orient = RIGHT /\ BreakpointRejects(start, end)
    THEN FlankRaise("AssertionError",
           Msg(MsgIncompatible, IntervalArgs(cover2) \o BreakpointArgs(first_breakpoint_called)))
    ELSE IF BreakpointRejects(start, end) THEN FlankRaise("AttributeError", NoMsg)
    ELSE FlankResult(Ok, NoMsg, first_breakpoint_called,
                     Bp(e.break2.chr, start, end, e.break2.orient, e.break2.strand))

\* lines 280-314: the second breakpoint when it is not given
FlankSecond(e, cover1, cover2, first_breakpoint_called, max_breakpoint_width) ==
    IF e.break2.orient = LEFT
    THEN SecondBreakpoint(e, cover2, first_breakpoint_called, cover2.end, cover2.end + max_breakpoint_width)
    ELSE IF e.break2.orient = RIGHT
    THEN SecondBreakpoint(e, cover2, first_breakpoint_called,
           SecondStart(e, cover1, cover2, first_breakpoint_called, max_breakpoint_width), cover2.start)
    ELSE FlankRaise("NotSpecifiedError", NoMsg)

\* the width without the two read lengths
MaxBreakpointWidthNoReads(e, cover) == e.max_expected_fragment_size - IntervalLen(cover)

\* lines 247 and 281
MaxBreakpointWidth(e, cover) == e.max_expected_fragment_size - IntervalLen(cover) - e.read_length * 2

\* flanking bounding without its checks on the covering intervals
FlankCoverUnchecked(e, cover1, cover2) == NoMsg

\* lines 225-241: the overlap and size checks on the covering intervals
FlankCoverCheck(e, cover1, cover2) ==
    IF ~interchromosomal(e) /\ Overlaps(cover1, cover2)
    THEN Msg(MsgOverlap, IntervalArgs(cover1) \o IntervalArgs(cover2))
    ELSE IF \/ IntervalLen(cover1) + e.read_length * 2 > e.max_expected_fragment_size
            \/ IntervalLen(cover2) + e.read_length * 2 > e.max_expected_fragment_size
    THEN Msg(MsgOversize, IntervalArgs(cover1) \o IntervalArgs(cover2) \o <<e.max_expected_fragment_size>>)
    ELSE NoMsg

\* lines 280-315, given the outcome r1 of lines 246-278
FlankAfterFirst(e, cover1, cover2, r1, second_breakpoint_called) ==
    IF r1.kind # Ok THEN r1
    ELSE IF second_breakpoint_called # NoBreakpoint THEN r1
    ELSE FlankSecond(e, cover1, cover2, r1.first, MaxBreakpointWidth(e, cover2))

\* lines 233-315
FlankBound(e, cover1, cover2, first_breakpoint_called, second_breakpoint_called) ==
    IF FlankCoverCheck(e, cover1, cover2) # NoMsg
    THEN FlankRaise("AssertionError", FlankCoverCheck(e, cover1, cover2))
    ELSE IF first_breakpoint_called # NoBreakpoint
    THEN FlankAfterFirst(e, cover1, cover2,
           FlankResult(Ok, NoMsg, first_breakpoint_called, second_breakpoint_called),
           second_breakpoint_called)
    ELSE FlankAfterFirst(e, cover1, cover2,
           FlankFirst(e, cover1, cover2, second_breakpoint_called, MaxBreakpointWidth(e, cover1)),
           second_breakpoint_called)

\* lines 225-226
Cover(positions) == Interval(Min(positions), Max(positions))

_call_by_flanking_pairs(e, et, first_breakpoint_called, second_breakpoint_called) ==
    IF first_breakpoint_called # NoBreakpoint /\ second_breakpoint_called # NoBreakpoint
    THEN FlankRaise("ValueError", NoMsg)
    ELSE IF Len(RetainedPairs(e, et)) < e.min_flanking_pairs_resolution
    THEN FlankRaise("AssertionError", Msg(MsgInsufficient, <<>>))
    ELSE IF Len(RetainedPairs(e, et)) = 0
    THEN FlankRaise("ValueError", NoMsg)   \* min() of an empty list
    ELSE FlankBound(e, Cover(first_positions(e, et)), Cover(second_positions(e, et)),
                    first_breakpoint_called, second_breakpoint_called)

----------------------------------------------------------------------------
(* _call_by_supporting_reads                                               *)

\* a split read whose breakpoint position cannot be computed
NoPos == -1

\* bam.read.breakpoint_pos: the 0-based position at which the read breaks
BreakpointPosFails(read, orient) == read.bpos = NoPos

breakpoint_pos(read, orient) == read.bpos

Keys(d) == [i \in DOMAIN d |-> d[i].pos]

HasKey(d, pos) == \E i \in DOMAIN d : d[i].pos = pos

Lookup(d, pos) == d[CHOOSE i \in DOMAIN d : d[i].pos = pos].reads

\* the position at which the resolver files a read (line 331)
PutativePos(read, orient) == breakpoint_pos(read, orient) + 1

\* lines 329-337: d[pos].append(read), a new key going last
RECURSIVE GroupByPos(_, _, _)
GroupByPos(reads, orient, d) ==
    IF reads = <<>> THEN d
    ELSE LET read == Head(reads)
             pos == PutativePos(read, orient)
         IN  IF BreakpointPosFails(read, orient) THEN GroupByPos(Tail(reads), orient, d)
             ELSE IF HasKey(d, pos)
             THEN GroupByPos(Tail(reads), orient,
                    [i \in DOMAIN d |-> IF d[i].pos = pos
                                        THEN [pos |-> pos, reads |-> Append(d[i].reads, read)]
                                        ELSE d[i]])
             ELSE GroupByPos(Tail(reads), orient, Append(d, [pos |-> pos, reads |-> <<read>>]))

NonTargeted(reads) == LET Plain(r) == ~r.targeted IN Len(SelectSeq(reads, Plain))

\* the filter without its count of reads that are not targeted realignments
QualifiesAnyRead(e, reads) == Len(reads) >= e.min_splits_reads_resolution

\* lines 338-349: the positions that stay in the dict
Qualifies(e, reads) ==
    /\ Len(reads) >= e.min_splits_reads_resolution
    /\ NonTargeted(reads) >= e.min_non_target_aligned_split_reads

Candidates(e, i) ==
    LET orient == IF i = 1 THEN e.break1.orient ELSE e.break2.orient
        Keep(entry) == Qualifies(e, entry.reads)
    IN  SelectSeq(GroupByPos(e.split_reads[i], orient, <<>>), Keep)

\* itertools.product(a, b)
Product(a, b) ==
    [k \in 1..(Len(a) * Len(b)) |-> <<a[((k - 1) \div Len(b)) + 1], b[((k - 1) % Len(b)) + 1]>>]

\* lines 357-361: reads of the second position whose name occurs at the first
Links(reads1, reads2) ==
    LET read_names == {r.query_name : r \in Range(reads1)}
        Linked(r) == r.query_name \in read_names
    IN  Len(SelectSeq(reads2, Linked))

SplitCall(e, et, first, second) ==
    EventCallInit(Bp(e.break1.chr, first, first, e.break1.orient, e.break1.strand),
                  Bp(e.break2.chr, second, second, e.break2.orient, e.break2.strand),
                  e, et, SPLIT, None, NoContig, NoAlignment, None)

\* the ordering rule of both pairing loops (lines 354-356, 376-378)
OrderingRejects(e, first, second) == e.break1.chr = e.break2.chr /\ first >= second

\* lines 353-370 (linked = TRUE) and 375-385 (linked = FALSE)
PairSkipped(e, pos1, pos2, first, second, linked) ==
    \/ OrderingRejects(e, first, second)
    \/ (linked /\ Links(Lookup(pos1, first), Lookup(pos2, second)) < e.min_linking_split_reads)

RECURSIVE PairUp(_, _, _, _, _, _, _)
PairAdd(e, et, pos1, pos2, pairs, linked, acc, call) ==
    IF call.kind # Ok THEN [kind |-> call.kind, calls |-> <<>>]
    ELSE PairUp(e, et, pos1, pos2, Tail(pairs), linked, Append(acc, call.call))

PairUp(e, et, pos1, pos2, pairs, linked, acc) ==
    IF pairs = <<>> THEN [kind |-> Ok, calls |-> acc]
    ELSE IF PairSkipped(e, pos1, pos2, Head(pairs)[1], Head(pairs)[2], linked)
    THEN PairUp(e, et, pos1, pos2, Tail(pairs), linked, acc)
    ELSE PairAdd(e, et, pos1, pos2, pairs, linked, acc,
                 SplitCall(e, et, Head(pairs)[1], Head(pairs)[2]))

\* lines 372-373: candidates no linked call uses
Unused(keys, used) == LET Free(p) == p \notin used IN SelectSeq(keys, Free)

\* what the except clauses of lines 402, 417 and 428 catch
Caught(kind) == kind \in {"AssertionError", "UserWarning"}

ReadsResult(kind, callseq, msgs, flank_runs) ==
    [kind |-> kind, calls |-> callseq, msgs |-> msgs, flank_runs |-> flank_runs]

\* lines 391-393 and 406-408: the evidence's breakpoint moved to a candidate
FixedAt(break, pos) == [break EXCEPT !.start = pos, !.end = pos]

\* the outcome of one try block, from the flanking result r and the
\* EventCall built from it
Attempt(r, call, acc) ==
    IF r.kind = Ok /\ call.kind = Ok
    THEN ReadsResult(Ok, Append(acc.calls, call.call), acc.msgs, acc.flank_runs + 1)
    ELSE IF r.kind = Ok THEN ReadsResult(call.kind, <<>>, acc.msgs, acc.flank_runs + 1)
    ELSE IF Caught(r.kind) THEN ReadsResult(Ok, acc.calls, acc.msgs \cup {r.msg}, acc.flank_runs + 1)
    ELSE ReadsResult(r.kind, <<>>, acc.msgs, acc.flank_runs + 1)

AttemptWith(e, et, call_method, break2_call_method, r, acc) ==
    Attempt(r, EventCallInit(r.first, r.second, e, et, call_method, break2_call_method,
                             NoContig, NoAlignment, None), acc)

\* lines 390-403 (side = 1) and 405-418 (side = 2): one candidate fixed,
\* the other side bounded by flanking pairs
MixedAttempt(e, et, side, pos, acc) ==
    IF side = 1
    THEN AttemptWith(e, et, SPLIT, FLANK,
           _call_by_flanking_pairs(e, et, FixedAt(e.break1, pos), NoBreakpoint), acc)
    ELSE AttemptWith(e, et, FLANK, SPLIT,
           _call_by_flanking_pairs(e, et, NoBreakpoint, FixedAt(e.break2, pos)), acc)

RECURSIVE MixedLoop(_, _, _, _, _)
MixedLoop(e, et, side, keys, acc) ==
    IF keys = <<>> \/ acc.kind # Ok THEN acc
    ELSE MixedLoop(e, et, side, Tail(keys), MixedAttempt(e, et, side, Head(keys), acc))

\* the resolver without its last fallback level
PureFlankSkipped(e, et, acc) == acc

\* lines 420-429: flanking pairs alone
PureFlank(e, et, acc) ==
    IF acc.kind # Ok \/ Len(acc.calls) # 0 THEN acc
    ELSE AttemptWith(e, et, FLANK, None,
           _call_by_flanking_pairs(e, et, NoBreakpoint, NoBreakpoint), acc)

\* lines 430-432
RaiseIfEmpty(acc) ==
    IF acc.kind = Ok /\ Len(acc.calls) = 0
    THEN ReadsResult("UserWarning", <<>>, acc.msgs, acc.flank_runs)
    ELSE acc

\* lines 387-432
FallBack(e, et, pos1, pos2) ==
    RaiseIfEmpty(PureFlank(e, et,
        MixedLoop(e, et, 2, Keys(pos2),
            MixedLoop(e, et, 1, Keys(pos1), ReadsResult(Ok, <<>>, {}, 0)))))

\* the resolver falling back whether or not a pairing was found
AfterPairingUnguarded(e, et, pos1, pos2, all) ==
    IF all.kind # Ok THEN ReadsResult(all.kind, <<>>, {}, 0)
    ELSE ReadsResult(Ok, all.calls \o FallBack(e, et, pos1, pos2).calls, {}, 0)

\* lines 372-432, given the linked calls
AfterPairing(e, et, pos1, pos2, all) ==
    IF all.kind # Ok THEN ReadsResult(all.kind, <<>>, {}, 0)
    ELSE IF Len(all.calls) = 0 THEN FallBack(e, et, pos1, pos2)
    ELSE ReadsResult(Ok, all.calls, {}, 0)

AfterLinked(e, et, pos1, pos2, linked) ==
    IF linked.kind # Ok THEN AfterPairing(e, et, pos1, pos2, linked)
    ELSE AfterPairing(e, et, pos1, pos2,
           PairUp(e, et, pos1, pos2,
                  Product(Unused(Keys(pos1), {t.break1.start : t \in Range(linked.calls)}),
                          Unused(Keys(pos2), {t.break2.start : t \in Range(linked.calls)})),
                  FALSE, linked.calls))

ResolveReads(e, et, pos1, pos2) ==
    AfterLinked(e, et, pos1, pos2,
                PairUp(e, et, pos1, pos2, Product(Keys(pos1), Keys(pos2)), TRUE, <<>>))

_call_by_supporting_reads(e, et) == ResolveReads(e, et, Candidates(e, 1), Candidates(e, 2))

\* the assignments bp.start = pos, bp.end = pos of the two mixed loops, in
\* the order in which the loops make them
FixTargets(pos1, pos2) ==
    [i \in DOMAIN pos1 |-> <<1, pos1[i].pos>>] \o [i \in DOMAIN pos2 |-> <<2, pos2[i].pos>>]

\* the evidence if bp were the evidence's own breakpoint and not a copy
AfterAssignmentAliased(e, side, pos) ==
    IF side = 1 THEN [e EXCEPT !.break1 = FixedAt(e.break1, pos)]
    ELSE [e EXCEPT !.break2 = FixedAt(e.break2, pos)]

\* lines 391-393 and 406-408: bp is sys_copy(ev.breakN), a new object with
\* its own start and end, so the assignments leave the evidence as it was
AfterAssignment(e, side, pos) == e

RECURSIVE AssignAll(_, _)
AssignAll(e, targets) ==
    IF targets = <<>> THEN e
    ELSE AssignAll(AfterAssignment(e, Head(targets)[1], Head(targets)[2]), Tail(targets))

\* the evidence after the resolver, whose outcome is r: every iteration of
\* the mixed loops assigns once and runs flanking bounding once
EvidenceAfterReads(e, targets, r) ==
    AssignAll(e, SubSeq(targets, 1, Min({r.flank_runs, Len(targets)})))

----------------------------------------------------------------------------
(* EventCall.count_split_read_support                                      *)

\* a counter that takes every read of a side, wherever it breaks
SupportUnfiltered(reads, break) == {r.query_name : r \in Range(reads)}

\* names of the reads of one side whose position overlaps the called breakpoint
Support(reads, break) ==
    {r.query_name : r \in {x \in Range(reads) :
        /\ ~BreakpointPosFails(x, break.orient)
        /\ Overlaps(Interval(breakpoint_pos(x, break.orient), breakpoint_pos(x, break.orient)), break)}}

\* a tally of every targeted realignment of a side, wherever it breaks
RealignsUnfiltered(reads, break) == {r.query_name : r \in {x \in Range(reads) : x.targeted}}

Realigns(reads, break) ==
    {r.query_name : r \in {x \in Range(reads) :
        /\ ~BreakpointPosFails(x, break.orient)
        /\ Overlaps(Interval(breakpoint_pos(x, break.orient), breakpoint_pos(x, break.orient)), break)
        /\ x.targeted}}

count_split_read_support(call, e) ==
    <<Cardinality(Support(e.split_reads[1], call.break1)),
      Cardinality(Realigns(e.split_reads[1], call.break1)),
      Cardinality(Support(e.split_reads[2], call.break2)),
      Cardinality(Realigns(e.split_reads[2], call.break2)),
      Cardinality(Support(e.split_reads[1], call.break1) \cap Support(e.split_reads[2], call.break2))>>

----------------------------------------------------------------------------
(* EventCall.__eq__                                                        *)

True == "True"

NotImplemented == "NotImplemented"

\* an EventCall object: its identity and its fields
Object(id, call) == [id |-> id, call |-> call]

\* object.__eq__: True for the same object, NotImplemented otherwise
ObjectEq(x, y) == IF x.id = y.id THEN True ELSE NotImplemented

\* a method body that is an expression statement: the value is dropped and
\* the method returns None
Dropped(value) == None

\* lines 140-141
__eq__(x, y) == Dropped(ObjectEq(x, y))

\* the operator x == y: x.__eq__(y), then the reflected y.__eq__(x), then
\* identity, each tried only when the one before returns NotImplemented
Equals(x, y) ==
    IF __eq__(x, y) # NotImplemented THEN __eq__(x, y)
    ELSE IF __eq__(y, x) # NotImplemented THEN __eq__(y, x)
    ELSE IF x.id = y.id THEN True ELSE "False"

\* bool(value)
Truthy(value) == value = True

----------------------------------------------------------------------------
(* EventCall.count_flanking_support                                        *)

Abs(x) == IF x < 0 THEN -x ELSE x

\* itertools.chain.from_iterable(flanking_pairs): read, mate, read, mate, ...
FlankingReads(e) ==
    Flatten([i \in DOMAIN e.flanking_pairs |-> <<e.flanking_pairs[i].read, e.flanking_pairs[i].mate>>])

\* the result (count, median, stdev); the median is kept doubled and the
\* standard deviation as its square times 4 n, so that both stay integers:
\* median = median2 / 2, stdev = sqrt(err4 / (4 * n))
FlankSupport(kind, count, median2, err4, n) ==
    [kind |-> kind, count |-> count, median2 |-> median2, err4 |-> err4, n |-> n]

\* line 94
NoFlankSupport == FlankSupport(Ok, 0, 0, 0, 1)

\* statistics.median, doubled
Median2(sizes) ==
    IF Len(sizes) % 2 = 1
    THEN 2 * SortSeq(sizes, <)[(Len(sizes) + 1) \div 2]
    ELSE SortSeq(sizes, <)[Len(sizes) \div 2] + SortSeq(sizes, <)[(Len(sizes) \div 2) + 1]

RECURSIVE SumSq(_, _)
SumSq(sizes, median2) ==
    IF sizes = <<>> THEN 0
    ELSE (2 * Head(sizes) - median2) * (2 * Head(sizes) - median2) + SumSq(Tail(sizes), median2)

\* lines 79-81: the test names exp_isize_range, which nothing defines, as
\* soon as the event type is an insertion or a deletion
RaisesNameError(et) == et \in {INS, DEL}

\* lines 85-92
FlankStatistics(names, sizes) ==
    IF Cardinality(names) > 0
    THEN FlankSupport(Ok, Cardinality(names), Median2(sizes), SumSq(sizes, Median2(sizes)), Len(sizes))
    ELSE NoFlankSupport

\* the counter resolving exp_isize_range before its loop
count_flanking_support_eager(call, e) ==
    IF RaisesNameError(call.event_type)
    THEN FlankSupport("NameError", 0, 0, 0, 1)
    ELSE FlankStatistics({r.query_name : r \in Range(FlankingReads(e))},
                         [i \in DOMAIN FlankingReads(e) |-> Abs(FlankingReads(e)[i].template_length)])

count_flanking_support(call, e) ==
    IF FlankingReads(e) # <<>> /\ RaisesNameError(call.event_type)
    THEN FlankSupport("NameError", 0, 0, 0, 1)
    ELSE FlankStatistics({r.query_name : r \in Range(FlankingReads(e))},
                         [i \in DOMAIN FlankingReads(e) |-> Abs(FlankingReads(e)[i].template_length)])

----------------------------------------------------------------------------
(* _call_by_contigs                                                        *)

\* BreakpointPair.call_breakpoint_pair: the candidate an alignment pair
\* implies, or a failure (UserWarning)
CallBreakpointPairFails(aln) == aln.fails

call_breakpoint_pair(aln) == aln

\* lines 182-185: the candidates the resolver skips
ContigCandidateSkipped(e, et, bpp) ==
    \/ bpp.opposing_strands # e.opposing_strands
    \/ (et = INS /\ bpp.untemplated_sequence = "")
    \/ et \notin classify(bpp)

\* the keywords of the EventCall(...) call of lines 186-195, after its four
\* positional arguments
ContigCallKeywords == {"contig", "alignment", "opposing_strands", "untemplated_sequence"}

NewContigEvent(e, et, ci, ai, bpp) ==
    IF ~BindsEventCall(4, ContigCallKeywords) THEN Raise("TypeError")
    ELSE EventCallInit(bpp.break1, bpp.break2, e, et, None, None, ci, <<ci, ai>>,
                       bpp.untemplated_sequence)

\* the (contig, alignment pair) indices in the order of the two loops
AlignmentIndex(e) ==
    Flatten([ci \in DOMAIN e.contigs |-> [ai \in DOMAIN e.contigs[ci].alignments |-> <<ci, ai>>]])

Accepted(e, et, idx) ==
    LET aln == e.contigs[idx[1]].alignments[idx[2]]
    IN  ~CallBreakpointPairFails(aln) /\ ~ContigCandidateSkipped(e, et, call_breakpoint_pair(aln))

RECURSIVE ContigLoop(_, _, _, _)
ContigAdd(e, et, todo, acc, new_event) ==
    IF new_event.kind # Ok THEN [kind |-> new_event.kind, calls |-> <<>>]
    ELSE ContigLoop(e, et, Tail(todo), Append(acc, new_event.call))

ContigLoop(e, et, todo, acc) ==
    IF todo = <<>> THEN [kind |-> Ok, calls |-> acc]
    ELSE IF ~Accepted(e, et, Head(todo)) THEN ContigLoop(e, et, Tail(todo), acc)
    ELSE ContigAdd(e, et, todo, acc,
           NewContigEvent(e, et, Head(todo)[1], Head(todo)[2],
                          call_breakpoint_pair(e.contigs[Head(todo)[1]].alignments[Head(todo)[2]])))

_call_by_contigs(e, et) == ContigLoop(e, et, AlignmentIndex(e), <<>>)

----------------------------------------------------------------------------
(* LabelMapping (mavis/illustrate/util.py)                                 *)

\* a dict is a function from its keys to their values
EmptyDict == [k \in {} |-> None]

Without(d, key) == [k \in (DOMAIN d) \ {key} |-> d[k]]

LabelResult(kind, m, r, returned) == [kind |-> kind, m |-> m, r |-> r, returned |-> returned]

\* lines 24-30
__setitem__(m, r, key, value) ==
    IF key \in DOMAIN m THEN LabelResult("KeyError", m, r, None)
    ELSE IF value \in DOMAIN r THEN LabelResult("KeyError", m, r, None)
    ELSE LabelResult(Ok, (key :> value) @@ m, (value :> key) @@ r, None)

\* set_key deleting the old entry before it looks at the new value
set_key_deleting_first(m, r, key, value) ==
    IF key \in DOMAIN m /\ value = m[key] THEN LabelResult(Ok, m, r, None)
    ELSE IF key \in DOMAIN m
    THEN __setitem__(Without(m, key), Without(r, m[key]), key, value)
    ELSE __setitem__(m, r, key, value)

\* lines 44-55
set_key(m, r, key, value) ==
    IF key \in DOMAIN m /\ value = m[key] THEN LabelResult(Ok, m, r, None)
    ELSE IF value \in DOMAIN r THEN LabelResult("KeyError", m, r, None)
    ELSE IF key \in DOMAIN m
    THEN __setitem__(Without(m, key), Without(r, m[key]), key, value)
    ELSE __setitem__(m, r, key, value)

\* '{}{}'.format(prefix, i)
FormatKey(prefix, i) == prefix \o ToString(i)

\* line 67, after the assignment of line 64
AddReturn(s, value) ==
    IF s.kind # Ok THEN s ELSE LabelResult(Ok, s.m, s.r, s.r[value])

\* lines 60-67: the first free key prefix1, prefix2, ...
RECURSIVE AddFrom(_, _, _, _, _)
AddFrom(m, r, value, prefix, i) ==
    IF FormatKey(prefix, i) \notin DOMAIN m
    THEN AddReturn(__setitem__(m, r, FormatKey(prefix, i), value), value)
    ELSE AddFrom(m, r, value, prefix, i + 1)

\* lines 57-67
add(m, r, value, prefix) ==
    IF value \in DOMAIN r THEN LabelResult(Ok, m, r, r[value])
    ELSE AddFrom(m, r, value, prefix, 1)

\* lines 18-22: LabelMapping(**kwargs), the keywords taken in order
RECURSIVE LabelMappingInit(_, _)
LabelMappingInit(s, kwargs) ==
    IF kwargs = <<>> \/ s.kind # Ok THEN s
    ELSE LabelMappingInit(__setitem__(s.m, s.r, Head(kwargs)[1], Head(kwargs)[2]), Tail(kwargs))

NotLabelled ==
    [op |-> "none", key |-> None, value |-> None, kind |-> Ok, returned |-> None,
     m |-> EmptyDict, r |-> EmptyDict]

\* no LabelMapping is in play
NoLabelMapping ==
    /\ _mapping = EmptyDict
    /\ _reverse_mapping = EmptyDict
    /\ labelled = NotLabelled

----------------------------------------------------------------------------
(* Evidence: the inputs of call_events                                     *)

MaxPos == 4
MaxFlankingPairs == 2
MaxSplitReads == 2
MaxAlignments == 2

Positions == 1..MaxPos

\* fragment sizes below, inside and above the expected range 3..5
FragmentSizes == {Interval(2, 2), Interval(4, 4), Interval(7, 7)}

LargeFragment == Interval(7, 7)

\* a flanking pair of reads of length 1 at the 1-based positions p1 and p2;
\* each read names its mate's start as its next_reference_start
FlankingPair(p1, p2, size) ==
    [read |-> [reference_start |-> p1 - 1, reference_end |-> p1, next_reference_start |-> p2 - 1],
     mate |-> [reference_start |-> p2 - 1, reference_end |-> p2, next_reference_start |-> p1 - 1],
     fragment_size |-> size]

\* the reads of the i-th pair carry the pair's name and its template length,
\* positive on the read and negative on the mate
NamedRead(r, name, template_length) ==
    [reference_start |-> r.reference_start, reference_end |-> r.reference_end,
     next_reference_start |-> r.next_reference_start,
     query_name |-> name, template_length |-> template_length]

NamedPairs(fp) ==
    [i \in DOMAIN fp |->
        [read |-> NamedRead(fp[i].read, i, fp[i].fragment_size.end),
         mate |-> NamedRead(fp[i].mate, i, -fp[i].fragment_size.end),
         fragment_size |-> fp[i].fragment_size]]

SplitRead(name, bpos, targeted) == [query_name |-> name, bpos |-> bpos, targeted |-> targeted]

Candidate(chr2, o1, o2, opposing, ut) ==
    [fails |-> FALSE, break1 |-> Bp("1", 1, 1, o1, NS), break2 |-> Bp(chr2, 3, 3, o2, NS),
     opposing_strands |-> opposing, untemplated_sequence |-> ut]

FailedCandidate == [Candidate("1", NS, NS, FALSE, "") EXCEPT !.fails = TRUE]

Contig(alns) == [alignments |-> alns]

Geometries == [chr2 : {"1", "2"}, o1 : ORIENT, o2 : ORIENT, opposing : BOOLEAN]

\* the geometries with both orientations given and a non-empty classification
ConcreteGeometries ==
    {g \in Geometries : g.o1 # NS /\ g.o2 # NS /\ ClassifyConcrete(g.chr2 = "1", g.o1, g.o2, g.opposing) # {}}

Thresholds == [min_flanking : 0..2, min_splits : 1..2, min_non_target : 0..1, min_linking : 1..2]

DefaultThresholds == [min_flanking |-> 1, min_splits |-> 1, min_non_target |-> 0, min_linking |-> 1]

Evidence(g, ut, sr1, sr2, fp, ctgs, th) ==
    [break1 |-> Bp("1", 1, MaxPos, g.o1, NS),
     break2 |-> Bp(g.chr2, 1, MaxPos, g.o2, NS),
     opposing_strands |-> g.opposing,
     untemplated_sequence |-> ut,
     split_reads |-> <<sr1, sr2>>,
     flanking_pairs |-> NamedPairs(fp),
     contigs |-> ctgs,
     read_length |-> 1,
     min_expected_fragment_size |-> 3,
     max_expected_fragment_size |-> 5,
     min_flanking_pairs_resolution |-> th.min_flanking,
     min_splits_reads_resolution |-> th.min_splits,
     min_non_target_aligned_split_reads |-> th.min_non_target,
     min_linking_split_reads |-> th.min_linking]

\* every geometry with a small choice of evidence of each class
SplitChoices == {<<>>, <<SplitRead("a", 0, FALSE)>>, <<SplitRead("a", 2, FALSE)>>}

FlankChoices == {<<>>, <<FlankingPair(1, 4, LargeFragment)>>}

ContigChoices ==
    {<<>>, <<Contig(<<Candidate("1", LEFT, RIGHT, FALSE, "")>>)>>,
     <<Contig(<<Candidate("2", LEFT, LEFT, TRUE, "A")>>)>>}

GeometryFamily ==
    {Evidence(g, None, sr1, sr2, fp, ctgs, DefaultThresholds) :
        g \in Geometries, sr1 \in SplitChoices, sr2 \in SplitChoices,
        fp \in FlankChoices, ctgs \in ContigChoices}

\* contigs: up to two contigs of up to MaxAlignments alignment pairs
Candidates4 ==
    {FailedCandidate, Candidate("1", LEFT, RIGHT, FALSE, ""), Candidate("1", LEFT, RIGHT, FALSE, "A"),
     Candidate("1", LEFT, LEFT, TRUE, "")}

ContigFamily ==
    {Evidence(g, ut, <<>>, <<>>, <<>>, ctgs, DefaultThresholds) :
        g \in {x \in ConcreteGeometries : x.chr2 = "1" /\ x.o1 = LEFT},
        ut \in {None, "AT"},
        ctgs \in SeqsUpTo({Contig(a) : a \in SeqsUpTo(Candidates4, MaxAlignments)}, 2)}

\* split reads: side 1 free, side 2 breaking at one position
SplitReads1 ==
    SeqsUpTo({SplitRead("a", b, t) : b \in {NoPos, 0, 2}, t \in BOOLEAN}
                 \cup {SplitRead("b", b, FALSE) : b \in {0, 2}},
             MaxSplitReads)

SplitReads2 ==
    SeqsUpTo({SplitRead(n, 2, FALSE) : n \in {"a", "b"}}, MaxSplitReads)

SplitFamily ==
    {Evidence([chr2 |-> "1", o1 |-> LEFT, o2 |-> RIGHT, opposing |-> FALSE], None,
              sr1, sr2, <<>>, <<>>, th) :
        sr1 \in SplitReads1, sr2 \in SplitReads2,
        th \in {t \in Thresholds : t.min_flanking = 1}}

\* flanking pairs: up to MaxFlankingPairs distinct pairs anywhere, with at
\* most one split candidate; the pairs are listed in a canonical order
PairKey(p) == p.read.reference_start * (MaxPos + 1) + p.mate.reference_start

Canonical(fp) == \A i, j \in DOMAIN fp : i < j => PairKey(fp[i]) < PairKey(fp[j])

FlankSeqs ==
    {fp \in SeqsUpTo({FlankingPair(p1, p2, LargeFragment) : p1 \in Positions, p2 \in Positions},
                     MaxFlankingPairs) : Canonical(fp)}

OneSplit == {<<>>} \cup {<<SplitRead("a", p - 1, FALSE)>> : p \in {1, MaxPos}}

\* the geometries on one chromosome, and those on two with break1 LEFT
FlankGeometries == {g \in ConcreteGeometries : g.chr2 = "1" \/ g.o1 = LEFT}

FlankFamily ==
    {Evidence(g, None, sr[1], sr[2], fp, <<>>, DefaultThresholds) :
        g \in FlankGeometries,
        sr \in {<<a, b>> \in OneSplit \X OneSplit : a = <<>> \/ b = <<>>},
        fp \in FlankSeqs}

\* the event-type filter: pairs of every fragment size, every threshold
FilterFamily ==
    {Evidence(g, None, <<>>, <<>>, fp, <<>>, [DefaultThresholds EXCEPT !.min_flanking = n]) :
        g \in ConcreteGeometries, n \in 0..2,
        fp \in SeqsUpTo({FlankingPair(1, 4, size) : size \in FragmentSizes}, MaxFlankingPairs)}

\* flanking bounding called directly: pairs anywhere
BoundFamily ==
    {Evidence(g, None, <<>>, <<>>, fp, <<>>, DefaultThresholds) :
        g \in FlankGeometries, fp \in FlankSeqs}

\* flanking bounding called directly on pairs of every fragment size at
\* different positions, with every threshold
SizedFamily ==
    {Evidence(g, None, <<>>, <<>>, fp, <<>>, [DefaultThresholds EXCEPT !.min_flanking = n]) :
        g \in FlankGeometries, n \in 0..2,
        fp \in {<<>>} \cup {<<FlankingPair(1, 4, s)>> : s \in FragmentSizes}
                 \cup {<<FlankingPair(1, 4, s1), FlankingPair(2, 3, s2)>> :
                          s1 \in FragmentSizes, s2 \in FragmentSizes}}

BoundInputs(e) == e \in BoundFamily \/ e \in SizedFamily

\* the breakpoints already called that a caller passes: none, one side at a
\* position, or both
GivenSides(e) ==
    {<<NoBreakpoint, NoBreakpoint>>, <<FixedAt(e.break1, 1), FixedAt(e.break2, MaxPos)>>}
        \cup {<<FixedAt(e.break1, p), NoBreakpoint>> : p \in {1, 2, MaxPos}}
        \cup {<<NoBreakpoint, FixedAt(e.break2, p)>> : p \in {1, 2, MaxPos}}

NotBound ==
    [first_breakpoint_called |-> NoBreakpoint, second_breakpoint_called |-> NoBreakpoint,
     r |-> FlankRaise("none", NoMsg)]

\* the support counters: split reads of side 1 breaking anywhere or nowhere,
\* with and without flanking pairs
CountReads1 ==
    SeqsUpTo({SplitRead("a", b, t) : b \in {NoPos, 1, 2}, t \in BOOLEAN} \cup {SplitRead("b", 1, FALSE)},
             MaxSplitReads)

CountReads2 ==
    {<<>>, <<SplitRead("a", 3, FALSE)>>,
     <<SplitRead("a", 3, TRUE), SplitRead("b", 2, FALSE), SplitRead("c", NoPos, FALSE)>>}

CountFamily ==
    {Evidence([chr2 |-> "1", o1 |-> o, o2 |-> IF o = LEFT THEN RIGHT ELSE LEFT, opposing |-> FALSE], None,
              sr1, sr2, fp, <<>>, DefaultThresholds) :
        o \in {LEFT, RIGHT}, sr1 \in CountReads1, sr2 \in CountReads2,
        fp \in {<<>>, <<FlankingPair(1, 4, LargeFragment)>>,
                <<FlankingPair(1, 4, LargeFragment), FlankingPair(1, 3, Interval(4, 4))>>}}

NotCounted == [split |-> <<0, 0, 0, 0, 0>>, flanking |-> FlankSupport("none", 0, 0, 0, 1)]

\* two invocations: at most one flanking pair and one split candidate
TwiceFamily ==
    {Evidence(g, None, sr[1], sr[2], fp, <<>>, DefaultThresholds) :
        g \in ConcreteGeometries,
        sr \in {<<a, b>> \in OneSplit \X OneSplit : a = <<>> \/ b = <<>>},
        fp \in {f \in FlankSeqs : Len(f) <= 1}}

NoRun == [kind |-> "none", message |-> <<>>, calls |-> <<>>]

FirstRun == [kind |-> "first", message |-> <<>>, calls |-> <<>>]

NotCompared == [same |-> FALSE, value |-> "none"]

\* the constructor called directly: every geometry, with and without an
\* untemplated sequence on the evidence
CtorFamily ==
    {Evidence(g, ut, <<>>, <<>>, <<>>, <<Contig(<<Candidate("1", LEFT, RIGHT, FALSE, "")>>)>>, DefaultThresholds) :
        g \in Geometries, ut \in {None, "AT"}}

\* split reads at two positions on each side, one name shared between the
\* first position of side 1 and the first position of side 2
UnlinkedFamily ==
    {Evidence([chr2 |-> "1", o1 |-> LEFT, o2 |-> RIGHT, opposing |-> FALSE], None,
              sr1, sr2, <<>>, <<>>, DefaultThresholds) :
        sr1 \in SeqsUpTo({SplitRead("a", 0, FALSE), SplitRead("b", 1, FALSE)}, MaxSplitReads),
        sr2 \in SeqsUpTo({SplitRead("a", 2, FALSE), SplitRead("c", 3, FALSE)}, MaxSplitReads)}

ScenarioNames == <<"r1", "r2", "r3", "r4", "r5", "r6">>

\* six split reads on each side, breaking at 100 and at 500, names shared
ScenarioB ==
    Evidence([chr2 |-> "1", o1 |-> LEFT, o2 |-> RIGHT, opposing |-> FALSE], None,
             [i \in 1..6 |-> SplitRead(ScenarioNames[i], 99, FALSE)],
             [i \in 1..6 |-> SplitRead(ScenarioNames[i], 499, FALSE)],
             <<>>, <<>>,
             [min_flanking |-> 1, min_splits |-> 5, min_non_target |-> 0, min_linking |-> 1])

\* the inputs of call_events: every event type on the geometry family, the
\* event types the geometry allows on the others (the split-read resolver
\* does not read the event type; an insertion retains no large fragment)
Inputs(e, et) ==
    \/ e \in GeometryFamily /\ et \in SVTYPE
    \/ e \in ContigFamily /\ et \in putative_event_types(e)
    \/ e \in SplitFamily /\ et = DEL
    \/ e \in FlankFamily /\ et \in putative_event_types(e) \ {INS}
    \/ e \in FilterFamily /\ et \in putative_event_types(e)
    \/ e = ScenarioB /\ et = DEL
    \/ e \in UnlinkedFamily /\ et = DEL

----------------------------------------------------------------------------
(* call_events, one step per statement group                               *)

Pending == [kind |-> "pending", message |-> <<>>]

Raised(kind, message) == [kind |-> kind, message |-> message]

\* call_events without its guard
CompatibleUnchecked(e, et) == TRUE

\* line 152
Compatible(e, et) == et \in putative_event_types(e)

\* call_events returning whatever it has, an empty list included
CallEventsOutcomeNoRaise(cs, errs) == [kind |-> "return", message |-> <<>>]

\* lines 166-170
CallEventsOutcome(cs, errs) ==
    IF Len(cs) = 0 /\ Cardinality(errs) > 0
    THEN Raised("UserWarning", Flatten(SortedJoined(errs)))
    ELSE IF Len(cs) = 0
    THEN Raised("UserWarning", <<Msg(MsgGeneric, <<>>)>>)
    ELSE [kind |-> "return", message |-> <<>>]

InitCall ==
    /\ Inputs(ev, event_type)
    /\ pc = "start"
    /\ calls = <<>>
    /\ errors = {}
    /\ result = Pending
    /\ ran = <<>>
    /\ built = Raise("none")
    /\ bound = NotBound
    /\ support = NotCounted
    /\ previous = NoRun
    /\ compared = NotCompared
    /\ NoLabelMapping

InitCtor ==
    /\ ev \in CtorFamily
    /\ event_type = None
    /\ pc = "ctor"
    /\ calls = <<>>
    /\ errors = {}
    /\ result = Pending
    /\ ran = <<>>
    /\ built = Raise("none")
    /\ bound = NotBound
    /\ support = NotCounted
    /\ previous = NoRun
    /\ compared = NotCompared
    /\ NoLabelMapping

\* _call_by_flanking_pairs called directly
InitBound ==
    /\ BoundInputs(ev)
    /\ event_type \in putative_event_types(ev)
    /\ pc = "bound"
    /\ calls = <<>>
    /\ errors = {}
    /\ result = Pending
    /\ ran = <<>>
    /\ built = Raise("none")
    /\ bound = NotBound
    /\ support = NotCounted
    /\ previous = NoRun
    /\ compared = NotCompared
    /\ NoLabelMapping

\* call_events invoked twice on the same evidence and event type
InitTwice ==
    /\ ev \in TwiceFamily
    /\ event_type \in putative_event_types(ev)
    /\ pc = "start"
    /\ calls = <<>>
    /\ errors = {}
    /\ result = Pending
    /\ ran = <<>>
    /\ built = Raise("none")
    /\ bound = NotBound
    /\ support = NotCounted
    /\ previous = FirstRun
    /\ compared = NotCompared
    /\ NoLabelMapping

\* a call on which the support counters are asked
InitCount ==
    /\ ev \in CountFamily
    /\ event_type \in putative_event_types(ev)
    /\ pc = "count"
    /\ calls = <<>>
    /\ errors = {}
    /\ result = Pending
    /\ ran = <<>>
    /\ built = Raise("none")
    /\ bound = NotBound
    /\ support = NotCounted
    /\ previous = NoRun
    /\ compared = NotCompared
    /\ NoLabelMapping

Init == InitCall \/ InitCtor \/ InitBound \/ InitCount \/ InitTwice

\* lines 152-156
CheckEventType ==
    /\ pc = "start"
    /\ IF Compatible(ev, event_type)
       THEN pc' = "contigs" /\ result' = result
       ELSE pc' = "done" /\ result' = Raised("ValueError", <<>>)
    /\ UNCHANGED <<ev, event_type, calls, errors, ran, built, bound, support, previous, compared, labels>>

\* line 158, given the resolver's outcome r
AfterContigs(r) ==
    /\ ran' = Append(ran, "contigs")
    /\ IF r.kind = Ok
       THEN /\ calls' = calls \o r.calls
            /\ pc' = IF Len(r.calls) = 0 THEN "reads" ELSE "finish"
            /\ result' = result
       ELSE /\ calls' = calls
            /\ pc' = "done"
            /\ result' = Raised(r.kind, <<>>)

TryContigs ==
    /\ pc = "contigs"
    /\ AfterContigs(_call_by_contigs(ev, event_type))
    /\ UNCHANGED <<ev, event_type, errors, built, bound, support, previous, compared, labels>>

\* lines 160-165, given the resolver's outcome r; the resolver joins its set
\* of messages in any order
AfterReads(r) ==
    /\ ev' = EvidenceAfterReads(ev, FixTargets(Candidates(ev, 1), Candidates(ev, 2)), r)
    /\ ran' = ran \o <<"reads">> \o [i \in 1..r.flank_runs |-> "flank"]
    /\ IF r.kind = Ok
       THEN calls' = calls \o r.calls /\ errors' = errors /\ pc' = "finish" /\ result' = result
       ELSE IF r.kind = "UserWarning"
       THEN /\ \E order \in Perms(r.msgs) : errors' = errors \cup {order}
            /\ calls' = calls /\ pc' = "finish" /\ result' = result
       ELSE calls' = calls /\ errors' = errors /\ pc' = "done" /\ result' = Raised(r.kind, <<>>)

TrySupportingReads ==
    /\ pc = "reads"
    /\ AfterReads(_call_by_supporting_reads(ev, event_type))
    /\ UNCHANGED <<event_type, built, bound, support, previous, compared, labels>>

\* lines 166-170
Finish ==
    /\ pc = "finish"
    /\ result' = CallEventsOutcome(calls, errors)
    /\ pc' = "done"
    /\ UNCHANGED <<ev, event_type, calls, errors, ran, built, bound, support, previous, compared, labels>>

\* EventCall(...) called directly with any combination of event type, call
\* methods, contig and untemplated sequence
Construct ==
    /\ pc = "ctor"
    /\ \E et \in SVTYPE, cm \in CALL_METHOD \cup {None}, cm2 \in CALL_METHOD \cup {None},
          ctg \in {NoContig, 1}, ut \in {None, ""} :
          built' = EventCallInit(Bp("1", 1, 1, ev.break1.orient, NS), Bp(ev.break2.chr, 3, 3, ev.break2.orient, NS),
                                 ev, et, cm, cm2, ctg, IF ctg = NoContig THEN NoAlignment ELSE <<ctg, 1>>, ut)
    /\ pc' = "built"
    /\ UNCHANGED <<ev, event_type, calls, errors, result, ran, bound, support, previous, compared, labels>>

\* _call_by_flanking_pairs(ev, event_type, ...) with neither side, one side
\* or both sides already called
Bound ==
    /\ pc = "bound"
    /\ \E given \in GivenSides(ev) :
          bound' = [first_breakpoint_called |-> given[1], second_breakpoint_called |-> given[2],
                    r |-> _call_by_flanking_pairs(ev, event_type, given[1], given[2])]
    /\ pc' = "bounded"
    /\ UNCHANGED <<ev, event_type, calls, errors, result, ran, built, support, previous, compared, labels>>

\* a call with a point or an interval on side 1, as the resolvers build them
BuildCall ==
    /\ pc = "count"
    /\ \E end1 \in 1..2, cm \in {SPLIT, FLANK} :
          built' = EventCallInit(Bp("1", 1, end1, ev.break1.orient, NS), Bp("1", 3, 3, ev.break2.orient, NS),
                                 ev, event_type, cm, None, NoContig, NoAlignment, None)
    /\ pc' = "call"
    /\ UNCHANGED <<ev, event_type, calls, errors, result, ran, bound, support, previous, compared, labels>>

\* call.count_split_read_support() and call.count_flanking_support()
CountSupport ==
    /\ pc = "call"
    /\ built.kind = Ok
    /\ support' = [split |-> count_split_read_support(built.call, ev),
                   flanking |-> count_flanking_support(built.call, ev)]
    /\ pc' = "counted"
    /\ UNCHANGED <<ev, event_type, calls, errors, result, ran, built, bound, previous, compared, labels>>

\* x == y for the call just built and either itself or a second EventCall
\* built from the same arguments
Compare ==
    /\ pc = "built"
    /\ built.kind = Ok
    /\ \E other \in 1..2 :
          compared' = [same |-> other = 1,
                       value |-> Equals(Object(1, built.call), Object(other, built.call))]
    /\ pc' = "compared"
    /\ UNCHANGED <<ev, event_type, calls, errors, result, ran, built, bound, support, previous, labels>>

\* the second invocation: the first outcome is kept aside and call_events is
\* entered again with the same arguments
Again ==
    /\ pc = "done"
    /\ previous = FirstRun
    /\ previous' = [kind |-> result.kind, message |-> result.message, calls |-> calls]
    /\ pc' = "start"
    /\ calls' = <<>>
    /\ errors' = {}
    /\ result' = Pending
    /\ ran' = <<>>
    /\ UNCHANGED <<ev, event_type, built, bound, support, compared, labels>>

Next ==
    \/ CheckEventType \/ TryContigs \/ TrySupportingReads \/ Finish
    \/ Construct \/ Bound \/ BuildCall \/ CountSupport \/ Again \/ Compare

Spec == Init /\ [][Next]_vars

----------------------------------------------------------------------------
(* LabelMapping: one step per operation                                    *)

MaxLabels == 3

\* the values to label, and the keys a caller chooses; "1" is also the first
\* key that add makes
LabelValues == {"v" \o ToString(i) : i \in 1..MaxLabels}

LabelKeys == {"1", "2", "x"}

LabelPrefixes == {"", "x"}

\* keyword arguments of the constructor: distinct keys, any values
LabelKwargs ==
    {kw \in SeqsUpTo(LabelKeys \X LabelValues, 2) :
        \A i, j \in DOMAIN kw : i # j => kw[i][1] # kw[j][1]}

\* a LabelMapping whose constructor returned
InitLabels ==
    /\ \E kw \in LabelKwargs :
          /\ LabelMappingInit(LabelResult(Ok, EmptyDict, EmptyDict, None), kw).kind = Ok
          /\ _mapping = LabelMappingInit(LabelResult(Ok, EmptyDict, EmptyDict, None), kw).m
          /\ _reverse_mapping = LabelMappingInit(LabelResult(Ok, EmptyDict, EmptyDict, None), kw).r
    /\ labelled = NotLabelled
    /\ ev = ScenarioB
    /\ event_type = DEL
    /\ pc = "labels"
    /\ calls = <<>>
    /\ errors = {}
    /\ result = Pending
    /\ ran = <<>>
    /\ built = Raise("none")
    /\ bound = NotBound
    /\ support = NotCounted
    /\ previous = NoRun
    /\ compared = NotCompared

\* the maps after an operation whose outcome is s, and the record of it
Labelled(op, key, value, s) ==
    /\ _mapping' = s.m
    /\ _reverse_mapping' = s.r
    /\ labelled' = [op |-> op, key |-> key, value |-> value, kind |-> s.kind, returned |-> s.returned,
                    m |-> _mapping, r |-> _reverse_mapping]
    /\ UNCHANGED <<ev, event_type, pc, calls, errors, result, ran, built, bound, support, previous, compared>>

\* labels[key] = value
SetItem ==
    /\ pc = "labels"
    /\ \E key \in LabelKeys, value \in LabelValues :
          Labelled("__setitem__", key, value, __setitem__(_mapping, _reverse_mapping, key, value))

\* labels.set_key(key, value)
SetKey ==
    /\ pc = "labels"
    /\ \E key \in LabelKeys, value \in LabelValues :
          Labelled("set_key", key, value, set_key(_mapping, _reverse_mapping, key, value))

\* labels.add(value, prefix)
Add ==
    /\ pc = "labels"
    /\ \E value \in LabelValues, prefix \in LabelPrefixes :
          Labelled("add", prefix, value, add(_mapping, _reverse_mapping, value, prefix))

LabelNext == SetItem \/ SetKey \/ Add

LabelSpec == InitLabels /\ [][LabelNext]_vars

----------------------------------------------------------------------------
(* Properties                                                              *)

Done == pc = "done"

Requested == event_type \in putative_event_types(ev)

AcceptedIndex == LET Acc(idx) == Accepted(ev, event_type, idx) IN SelectSeq(AlignmentIndex(ev), Acc)

IsContigCall(c) == c.call_method = <<CONTIG, CONTIG>>

\* C1: strict priority. When the contig resolver has a call to give (some
\* alignment pair is accepted), call_events returns and its result is the
\* contig calls alone, the split-read resolver and flanking bounding not run.
C1_StrictPriority ==
    (Done /\ Requested /\ Len(AcceptedIndex) > 0)
        => /\ result.kind = "return"
           /\ Len(calls) > 0
           /\ \A i \in DOMAIN calls : IsContigCall(calls[i])
           /\ ran = <<"contigs">>

\* C2: every intrachromosomal call held by call_events has break1.start
\* before break2.start, whichever strategy made it.
C2_BreakpointOrder ==
    \A i \in DOMAIN calls :
        calls[i].break1.chr = calls[i].break2.chr => calls[i].break1.start < calls[i].break2.start

\* C3: the event type of every call of call_events, and of every EventCall
\* the constructor builds, is one of the evidence's putative event types.
C3_EventTypePutative ==
    /\ \A i \in DOMAIN calls : calls[i].event_type \in putative_event_types(ev)
    /\ (built.kind = Ok => built.call.event_type \in putative_event_types(ev))

C3_Witness ==
    \/ (Done /\ result.kind = "return" /\ Len(calls) > 0)
    \/ (pc = "built" /\ built.kind = "ValueError")

\* C4: with an event type outside the putative types call_events ends at once
\* in ValueError: no resolver has run and no call exists.
C4_IncompatibleFailsFirst ==
    (pc \in {"start", "contigs", "reads", "finish", "done"} /\ ~Requested)
        => /\ pc \in {"start", "done"}
           /\ ran = <<>>
           /\ calls = <<>>
           /\ (Done => result.kind = "ValueError")

C4_Witness ==
    /\ Done /\ ~Requested /\ result.kind = "ValueError"
    /\ Len(ev.contigs) > 0 /\ Len(ev.split_reads[1]) > 0 /\ Len(ev.flanking_pairs) > 0

\* C5: each accepted contig candidate becomes one call, in order, with
\* call_method (CONTIG, CONTIG), its contig, its alignment pair and the
\* candidate's own untemplated sequence.
C5_ContigCalls ==
    (Done /\ Requested /\ Len(AcceptedIndex) > 0)
        => /\ Len(calls) = Len(AcceptedIndex)
           /\ \A k \in DOMAIN calls :
                /\ IsContigCall(calls[k])
                /\ calls[k].contig = AcceptedIndex[k][1]
                /\ calls[k].contig_alignment = AcceptedIndex[k]
                /\ calls[k].untemplated_sequence =
                     ev.contigs[AcceptedIndex[k][1]].alignments[AcceptedIndex[k][2]].untemplated_sequence

NamesAt(side, pos) ==
    {r.query_name : r \in {x \in Range(ev.split_reads[side]) : x.bpos # NoPos /\ x.bpos + 1 = pos}}

Count(c) == count_split_read_support(c, ev)

\* C6: for a (SPLIT, SPLIT) call whose two positions share at least
\* min_linking_split_reads names, count_split_read_support gives on each side
\* the number of names of the reads filed at the call's position, and as
\* linking support the number of names on both sides.
C6_SplitSupportCounts ==
    \A i \in DOMAIN calls :
        (/\ calls[i].call_method = <<SPLIT, SPLIT>>
         /\ Cardinality(NamesAt(1, calls[i].break1.start) \cap NamesAt(2, calls[i].break2.start))
              >= ev.min_linking_split_reads)
        => /\ Count(calls[i])[1] = Cardinality(NamesAt(1, calls[i].break1.start))
           /\ Count(calls[i])[3] = Cardinality(NamesAt(2, calls[i].break2.start))
           /\ Count(calls[i])[5] =
                Cardinality(NamesAt(1, calls[i].break1.start) \cap NamesAt(2, calls[i].break2.start))

\* C7: the message of the insufficient-evidence failure lists the recorded
\* reasons once each, in ascending order.
C7_MessageSorted ==
    (Done /\ result.kind = "UserWarning") => IsSortedMsgs(result.message)

\* C8: for a requested event type the putative types contain, call_events
\* fails only with its own UserWarning.
C8_OnlyUserWarning ==
    (Done /\ Requested) => result.kind \in {"return", "UserWarning"}

\* C9: call_events never returns an empty list, and with no call and no
\* recorded message its failure carries the generic message.
C9_NeverEmpty ==
    /\ (Done /\ result.kind = "return") => Len(calls) > 0
    /\ (Done /\ result.kind = "UserWarning" /\ errors = {})
         => result.message = <<Msg(MsgGeneric, <<>>)>>

C9_Witness == Done /\ Requested /\ calls = <<>> /\ result.kind = "UserWarning"

OneSidedContig(c) == (c.call_method[1] = CONTIG) # (c.call_method[2] = CONTIG)

\* C10: no call of call_events and no EventCall the constructor builds has
\* CONTIG on exactly one side.
C10_ContigBothOrNeither ==
    /\ \A i \in DOMAIN calls : ~OneSidedContig(calls[i])
    /\ (built.kind = Ok => ~OneSidedContig(built.call))

CoverOne == Cover(first_positions(ev, event_type))

CoverTwo == Cover(second_positions(ev, event_type))

\* the two covering intervals pass the checks of lines 233-241, written out
CoversPass ==
    /\ (ev.break1.chr = ev.break2.chr => (CoverOne.end < CoverTwo.start \/ CoverTwo.end < CoverOne.start))
    /\ (CoverOne.end - CoverOne.start + 1) + 2 * ev.read_length <= ev.max_expected_fragment_size
    /\ (CoverTwo.end - CoverTwo.start + 1) + 2 * ev.read_length <= ev.max_expected_fragment_size

\* no contig call, no qualifying split position, enough retained pairs and
\* covering intervals that pass both checks
PureFlankCase ==
    /\ Requested
    /\ Len(AcceptedIndex) = 0
    /\ Candidates(ev, 1) = <<>> /\ Candidates(ev, 2) = <<>>
    /\ Len(RetainedPairs(ev, event_type)) >= ev.min_flanking_pairs_resolution
    /\ Len(RetainedPairs(ev, event_type)) > 0
    /\ CoversPass

OneFlankCall ==
    /\ result.kind = "return"
    /\ Len(calls) = 1
    /\ calls[1].call_method = <<FLANK, FLANK>>

\* C11 as stated: in the pure-flanking case call_events returns exactly one
\* call, with call_method (FLANK, FLANK).
C11_PureFlankOneCall == (Done /\ PureFlankCase) => OneFlankCall

OrientationsGiven == ev.break1.orient # NS /\ ev.break2.orient # NS

CoversInOrder == ev.break1.chr # ev.break2.chr \/ CoverOne.end < CoverTwo.start

\* C11 amended: in the pure-flanking case, when both orientations are given
\* and on one chromosome the break1 cover lies before the break2 cover,
\* call_events returns exactly one call, with call_method (FLANK, FLANK).
C11_PureFlankOrdered == (Done /\ PureFlankCase /\ OrientationsGiven /\ CoversInOrder) => OneFlankCall

C11_Witness ==
    Done /\ PureFlankCase /\ OrientationsGiven /\ CoversInOrder /\ OneFlankCall
         /\ ev.break1.chr = ev.break2.chr /\ Len(ev.flanking_pairs) = 2

Bounded == pc = "bounded"

SomeRetained == Len(RetainedPairs(ev, event_type)) > 0

NoBreakpointMade ==
    \/ bound.r.kind = "ValueError"
    \/ /\ bound.r.kind = "AssertionError"
       /\ bound.r.first = NoBreakpoint
       /\ bound.r.second = NoBreakpoint

\* C12: flanking bounding returns breakpoints only when the two covering
\* intervals do not overlap on an intrachromosomal pair and each, padded by
\* twice the read length, fits max_expected_fragment_size; whenever a check
\* does not pass it fails and gives no breakpoint.
C12_BoundOnlyWhenCoversPass ==
    Bounded =>
        /\ (bound.r.kind = Ok => (SomeRetained /\ CoversPass))
        /\ (~(SomeRetained /\ CoversPass) => NoBreakpointMade)

C12_Witness ==
    /\ Bounded /\ SomeRetained
    /\ ev.break1.chr = ev.break2.chr
    /\ ~(CoverOne.end < CoverTwo.start \/ CoverTwo.end < CoverOne.start)
    /\ bound.r.kind = "AssertionError" /\ bound.r.msg.text = MsgOverlap
    /\ bound.first_breakpoint_called # NoBreakpoint

Counted == pc = "counted"

\* names of the reads of a side that break at a computable position inside
\* the interval of b
NamesInside(side, b) ==
    {r.query_name : r \in {x \in Range(ev.split_reads[side]) :
        x.bpos # NoPos /\ b.start <= x.bpos /\ x.bpos <= b.end}}

C14_NoPairsZeroSupport ==
    (Counted /\ Len(ev.flanking_pairs) = 0)
        => /\ support.flanking.kind = Ok
           /\ support.flanking.count = 0
           /\ support.flanking.median2 = 0
           /\ support.flanking.err4 = 0

C14_Witness ==
    /\ Counted /\ Len(ev.flanking_pairs) = 0
    /\ built.call.event_type = DEL
    /\ support.flanking = NoFlankSupport

SecondDone == Done /\ previous.kind \notin {"none", "first"}

\* C15: a second invocation of call_events on the same evidence and event
\* type ends as the first did: the same failure with the same message, or the
\* same calls in the same order.
C15_Deterministic ==
    SecondDone =>
        /\ result.kind = previous.kind
        /\ result.message = previous.message
        /\ calls = previous.calls

Compared == pc = "compared"

\* C17: equality of EventCall is by identity: x == x is true, and x == y is
\* false for two distinct objects with the same breakpoints, event type and
\* call method.
C17_IdentityEquality ==
    Compared => (Truthy(compared.value) <=> compared.same)

ReadsRan == pc \in {"finish", "done"} /\ Requested /\ Len(ran) >= 2 /\ ran[2] = "reads"

\* the reads filed at p2 on side 2 whose name is also filed at p1 on side 1
LinkingReads(p1, p2) ==
    Cardinality({i \in DOMAIN ev.split_reads[2] :
        /\ ev.split_reads[2][i].bpos # NoPos
        /\ ev.split_reads[2][i].bpos + 1 = p2
        /\ ev.split_reads[2][i].query_name \in NamesAt(1, p1)})

\* some combination of candidates passes the ordering rule and has enough
\* linking reads
SomeLinkedPair ==
    \E p1 \in Range(Keys(Candidates(ev, 1))), p2 \in Range(Keys(Candidates(ev, 2))) :
        /\ (ev.break1.chr = ev.break2.chr => p1 < p2)
        /\ LinkingReads(p1, p2) >= ev.min_linking_split_reads

\* C18: when some combination meets min_linking_split_reads the split-read
\* resolver gives linked calls only: every call is (SPLIT, SPLIT) and has at
\* least min_linking_split_reads linking reads.
C18_LinkedOnly ==
    (ReadsRan /\ SomeLinkedPair) =>
        \A i \in DOMAIN calls :
            /\ calls[i].call_method = <<SPLIT, SPLIT>>
            /\ LinkingReads(calls[i].break1.start, calls[i].break2.start) >= ev.min_linking_split_reads

HasFlankSide(c) == c.call_method[1] = FLANK \/ c.call_method[2] = FLANK

\* C19: the calls of the split-read resolver come from one fallback level: a
\* (SPLIT, SPLIT) call excludes every call with a FLANK side, and a
\* (FLANK, FLANK) call is alone in the list.
C19_SingleLevel ==
    ReadsRan =>
        /\ ((\E i \in DOMAIN calls : calls[i].call_method = <<SPLIT, SPLIT>>)
              => \A j \in DOMAIN calls : ~HasFlankSide(calls[j]))
        /\ ((\E i \in DOMAIN calls : calls[i].call_method = <<FLANK, FLANK>>)
              => Len(calls) = 1)
        /\ \A i \in DOMAIN calls : calls[i].call_method \in {SPLIT, FLANK} \X {SPLIT, FLANK}

C19_Witness ==
    /\ ReadsRan /\ Done /\ result.kind = "return"
    /\ \E i \in DOMAIN calls : calls[i].call_method = <<SPLIT, SPLIT>>
    /\ Len(RetainedPairs(ev, event_type)) >= ev.min_flanking_pairs_resolution
    /\ Len(RetainedPairs(ev, event_type)) > 0
    /\ CoversPass /\ CoversInOrder

\* C20: on one chromosome, with the break1 cover before the break2 cover, a
\* breakpoint made by flanking bounding does not overlap the other side's
\* cover and lies wholly on its own side of a position already fixed on the
\* other side.
C20_BoundedClearOfOtherSide ==
    (Bounded /\ bound.r.kind = Ok /\ ev.break1.chr = ev.break2.chr /\ SomeRetained /\ CoversInOrder) =>
        /\ (bound.first_breakpoint_called = NoBreakpoint =>
              /\ ~Overlaps(bound.r.first, CoverTwo)
              /\ (bound.second_breakpoint_called # NoBreakpoint
                    => bound.r.first.end < bound.second_breakpoint_called.start))
        /\ (bound.second_breakpoint_called = NoBreakpoint =>
              /\ ~Overlaps(bound.r.second, CoverOne)
              /\ (bound.first_breakpoint_called # NoBreakpoint
                    => bound.r.second.start > bound.first_breakpoint_called.end))

\* max_width of a side, written out from its covering interval
MaxWidthOf(cover) ==
    ev.max_expected_fragment_size - (cover.end - cover.start + 1) - 2 * ev.read_length

\* a resolved breakpoint b of orientation orient lies where its cover puts it
ProjectedFrom(b, cover, orient) ==
    /\ MaxWidthOf(cover) >= 0
    /\ (orient = LEFT => (b.start = cover.end /\ b.end <= cover.end + MaxWidthOf(cover)))
    /\ (orient = RIGHT =>
          /\ b.end = cover.start
          /\ b.start >= cover.start - MaxWidthOf(cover)
          /\ b.start >= 1)
    /\ 1 <= b.start
    /\ b.start <= b.end

\* C21: each side that flanking bounding resolves has max_width >= 0; a LEFT
\* breakpoint starts at cover.end and ends no later than cover.end +
\* max_width; a RIGHT one ends at cover.start and starts no earlier than
\* max(cover.start - max_width, 1); always 1 <= start <= end.
C21_ProjectedWithinWidth ==
    (Bounded /\ bound.r.kind = Ok) =>
        /\ (bound.first_breakpoint_called = NoBreakpoint
              => ProjectedFrom(bound.r.first, CoverOne, ev.break1.orient))
        /\ (bound.second_breakpoint_called = NoBreakpoint
              => ProjectedFrom(bound.r.second, CoverTwo, ev.break2.orient))

C21_Witness ==
    /\ Bounded /\ bound.r.kind = Ok
    /\ bound.first_breakpoint_called = NoBreakpoint
    /\ bound.second_breakpoint_called = NoBreakpoint
    /\ ev.break1.orient = RIGHT /\ ev.break2.orient = LEFT
    /\ CoverOne.start - MaxWidthOf(CoverOne) < 1
    /\ bound.r.first.start = 1
    /\ MaxWidthOf(CoverTwo) > 0
    /\ bound.r.second.end = CoverTwo.end + MaxWidthOf(CoverTwo)

\* the reads of a side filed at position p (line 331), by index
ReadsAt(side, p) ==
    {i \in DOMAIN ev.split_reads[side] :
        ev.split_reads[side][i].bpos # NoPos /\ ev.split_reads[side][i].bpos + 1 = p}

PlainReadsAt(side, p) == {i \in ReadsAt(side, p) : ~ev.split_reads[side][i].targeted}

FiledPositions(side) ==
    {ev.split_reads[side][i].bpos + 1 :
        i \in {j \in DOMAIN ev.split_reads[side] : ev.split_reads[side][j].bpos # NoPos}}

MeetsThresholds(side, p) ==
    /\ Cardinality(ReadsAt(side, p)) >= ev.min_splits_reads_resolution
    /\ Cardinality(PlainReadsAt(side, p)) >= ev.min_non_target_aligned_split_reads

IsCandidate(side, p) == p \in Range(Keys(Candidates(ev, side)))

\* C22: a position is a split-read candidate of a side exactly when at least
\* min_splits_reads_resolution reads of the side break at it and at least
\* min_non_target_aligned_split_reads of them are not targeted realignments;
\* every SPLIT-called breakpoint of a returned call is such a position.
C22_CandidateIffThresholds ==
    ReadsRan =>
        /\ \A side \in 1..2 : \A p \in FiledPositions(side) \cup (0..(MaxPos + 1)) :
              IsCandidate(side, p) <=> MeetsThresholds(side, p)
        /\ \A i \in DOMAIN calls : \A side \in 1..2 :
              calls[i].call_method[side] = SPLIT =>
                  LET b == IF side = 1 THEN calls[i].break1 ELSE calls[i].break2
                  IN  b.start = b.end /\ MeetsThresholds(side, b.start)

C22_Witness ==
    /\ ReadsRan /\ Done /\ result.kind = "return"
    /\ \E i \in DOMAIN calls : calls[i].call_method = <<SPLIT, SPLIT>>
    /\ \E p \in FiledPositions(1) :
          /\ Cardinality(ReadsAt(1, p)) >= ev.min_splits_reads_resolution
          /\ ~IsCandidate(1, p)

\* the read names that two candidate positions have in common
SharedNames(p1, p2) == NamesAt(1, p1) \cap NamesAt(2, p2)

\* the linking count of lines 357-361 for two candidate positions
LinksUsed(p1, p2) == Links(Lookup(Candidates(ev, 1), p1), Lookup(Candidates(ev, 2), p2))

\* C23: in linked pairing the linking count of a combination of candidates
\* is the number of distinct read names found on both sides, and the
\* combination is kept exactly when that number is at least
\* min_linking_split_reads.
C23_LinkingCountsNames ==
    ReadsRan =>
        \A p1 \in Range(Keys(Candidates(ev, 1))), p2 \in Range(Keys(Candidates(ev, 2))) :
            ~OrderingRejects(ev, p1, p2) =>
                /\ LinksUsed(p1, p2) = Cardinality(SharedNames(p1, p2))
                /\ (~PairSkipped(ev, Candidates(ev, 1), Candidates(ev, 2), p1, p2, TRUE)
                      <=> Cardinality(SharedNames(p1, p2)) >= ev.min_linking_split_reads)

\* call c comes no later than call d in ascending (break1, break2) order
PositionsAscend(c, d) ==
    \/ c.break1.start < d.break1.start
    \/ (c.break1.start = d.break1.start /\ c.break2.start <= d.break2.start)

\* C24: the calls of the split-read resolver are in ascending order of
\* (break1 position, break2 position) within each stage; here, with no linked
\* combination, the calls of one call method come from one stage.
C24_CallsSorted ==
    (ReadsRan /\ ~SomeLinkedPair) =>
        \A i, j \in DOMAIN calls :
            (i < j /\ calls[i].call_method = calls[j].call_method)
                => PositionsAscend(calls[i], calls[j])

ContigsRan == Requested /\ Len(ran) >= 1 /\ ran[1] = "contigs"

ContigCalls == SelectSeq(calls, IsContigCall)

DerivedPair(idx) == call_breakpoint_pair(ev.contigs[idx[1]].alignments[idx[2]])

\* C25: the contig resolver gives one call for each alignment pair whose
\* derivation succeeds and whose candidate has the evidence's
\* opposing_strands, a classification holding event_type and, for an
\* insertion, a non-empty untemplated sequence; it gives none for any other
\* pair, and a failed derivation does not stop the pairs after it.
C25_ContigOnePerAcceptedPair ==
    ContigsRan =>
        /\ result.kind \in {"pending", "return", "UserWarning"}
        /\ Len(ContigCalls) = Len(AcceptedIndex)
        /\ \A k \in DOMAIN ContigCalls :
              /\ ContigCalls[k].break1 = DerivedPair(AcceptedIndex[k]).break1
              /\ ContigCalls[k].break2 = DerivedPair(AcceptedIndex[k]).break2

\* the flanking pairs the event-type policy keeps, by index, written out
KeptPairs ==
    {i \in DOMAIN ev.flanking_pairs :
        /\ (event_type = DEL => ev.flanking_pairs[i].fragment_size.end > ev.max_expected_fragment_size)
        /\ (event_type = INS => ev.flanking_pairs[i].fragment_size.start < ev.min_expected_fragment_size)}

KeptFirstPositions ==
    UNION {{ev.flanking_pairs[i].read.reference_start + 1, ev.flanking_pairs[i].read.reference_end,
            ev.flanking_pairs[i].mate.next_reference_start + 1} : i \in KeptPairs}

KeptSecondPositions ==
    UNION {{ev.flanking_pairs[i].mate.reference_start + 1, ev.flanking_pairs[i].mate.reference_end,
            ev.flanking_pairs[i].read.next_reference_start + 1} : i \in KeptPairs}

InsufficientCoverage == bound.r.kind = "AssertionError" /\ bound.r.msg.text = MsgInsufficient

\* flanking bounding got as far as its filter: not both sides were given
FilterRan ==
    Bounded /\ (bound.first_breakpoint_called = NoBreakpoint \/ bound.second_breakpoint_called = NoBreakpoint)

\* C26: flanking bounding counts and covers the retained pairs only (for a
\* deletion those whose fragment-size upper bound exceeds
\* max_expected_fragment_size, for an insertion those whose lower bound is
\* below min_expected_fragment_size, otherwise all) and fails with
\* insufficient coverage exactly when fewer than
\* min_flanking_pairs_resolution pairs are retained.
C26_RetainedPairsOnly ==
    FilterRan =>
        /\ InsufficientCoverage <=> Cardinality(KeptPairs) < ev.min_flanking_pairs_resolution
        /\ (bound.r.kind = Ok /\ bound.first_breakpoint_called = NoBreakpoint) =>
              /\ (ev.break1.orient = LEFT => bound.r.first.start = Max(KeptFirstPositions))
              /\ (ev.break1.orient = RIGHT => bound.r.first.end = Min(KeptFirstPositions))
        /\ (bound.r.kind = Ok /\ bound.second_breakpoint_called = NoBreakpoint) =>
              /\ (ev.break2.orient = LEFT => bound.r.second.start = Max(KeptSecondPositions))
              /\ (ev.break2.orient = RIGHT => bound.r.second.end = Min(KeptSecondPositions))

C26_Witness ==
    /\ FilterRan /\ bound.r.kind = Ok
    /\ event_type = DEL
    /\ bound.first_breakpoint_called = NoBreakpoint
    /\ ev.break1.orient = LEFT
    /\ Cardinality(KeptPairs) = 1 /\ Len(ev.flanking_pairs) = 2
    /\ \E i \in DOMAIN ev.flanking_pairs :
          i \notin KeptPairs /\ ev.flanking_pairs[i].read.reference_end > bound.r.first.start

\* the flanking pairs whose absolute template length is outside the expected
\* range on the side the call's event type asks for
QualifyingPairs ==
    {i \in DOMAIN ev.flanking_pairs :
        /\ (built.call.event_type = DEL =>
              Abs(ev.flanking_pairs[i].read.template_length) > ev.max_expected_fragment_size)
        /\ (built.call.event_type = INS =>
              Abs(ev.flanking_pairs[i].read.template_length) < ev.min_expected_fragment_size)}

\* C27: count_flanking_support returns for every event type, and its count
\* is the number of pairs above the expected range for a deletion, below it
\* for an insertion, and of all pairs otherwise; (0, 0, 0) when none qualify.
C27_FlankingSupportCount ==
    Counted =>
        /\ support.flanking.kind = Ok
        /\ support.flanking.count = Cardinality(QualifyingPairs)
        /\ (QualifyingPairs = {} => (support.flanking.median2 = 0 /\ support.flanking.err4 = 0))

\* C28: with no flanking pair retained, flanking bounding ends in its
\* insufficient-coverage failure whatever min_flanking_pairs_resolution is,
\* 0 included; call_events then ends by returning or by its
\* insufficient-evidence failure, and with no other error.
C28_NoRetainedPairInsufficient ==
    /\ (FilterRan /\ KeptPairs = {}) => InsufficientCoverage
    /\ (Done /\ ReadsRan /\ KeptPairs = {}) => result.kind \in {"return", "UserWarning"}

\* C29: the five values (s1, f1, s2, f2, link) of count_split_read_support
\* satisfy 0 <= f1 <= s1, 0 <= f2 <= s2 and 0 <= link <= min(s1, s2).
TalliesNested(t) ==
    /\ 0 <= t[2] /\ t[2] <= t[1]
    /\ 0 <= t[4] /\ t[4] <= t[3]
    /\ 0 <= t[5] /\ t[5] <= t[1] /\ t[5] <= t[3]

C29_SupportTalliesNested ==
    /\ Counted => TalliesNested(support.split)
    /\ \A i \in DOMAIN calls : TalliesNested(Count(calls[i]))

C29_Witness ==
    /\ Counted
    /\ support.split = <<2, 1, 1, 1, 1>>
    /\ \E x \in Range(ev.split_reads[2]) : x.bpos # NoPos /\ x.bpos < built.call.break2.start

\* the two maps are inverses of each other
ExactInverses ==
    /\ \A k \in DOMAIN _mapping :
          _mapping[k] \in DOMAIN _reverse_mapping /\ _reverse_mapping[_mapping[k]] = k
    /\ \A v \in DOMAIN _reverse_mapping :
          _reverse_mapping[v] \in DOMAIN _mapping /\ _mapping[_reverse_mapping[v]] = v
    /\ Cardinality(DOMAIN _mapping) = Cardinality(DOMAIN _reverse_mapping)

\* C30: after any sequence of __setitem__, set_key and add, failed ones
\* included, _mapping and _reverse_mapping are exact inverses; an operation
\* that raises KeyError leaves both as they were; add of a value already
\* present returns its key and adds nothing.
C30_LabelMapsInverse ==
    /\ ExactInverses
    /\ (labelled.kind = "KeyError" => (_mapping = labelled.m /\ _reverse_mapping = labelled.r))
    /\ ((labelled.op = "add" /\ labelled.value \in DOMAIN labelled.r) =>
          /\ labelled.kind = Ok
          /\ labelled.returned = labelled.r[labelled.value]
          /\ _mapping = labelled.m /\ _reverse_mapping = labelled.r)

C30_Witness ==
    /\ labelled.op = "set_key" /\ labelled.kind = "KeyError"
    /\ labelled.key \in DOMAIN _mapping
    /\ Cardinality(DOMAIN _mapping) = MaxLabels
    /\ "x1" \in DOMAIN _mapping

====
